---- MODULE Spec2Model ----
(***************************************************************************)
(* The entropy hand-off protocol of kernel/src/hil/entropy.rs: a source    *)
(* (Entropy32 / Entropy8) and its registered client (Client32 / Client8).  *)
(* The file declares the two traits and documents their contract; the      *)
(* model is the state machine that contract describes.  One source and     *)
(* its client are modelled; the unit width only fixes the set of values.   *)
(*                                                                         *)
(*  - A client is registered from the start: the traits assume one, and    *)
(*    set_client takes a reference that cannot be absent.                  *)
(*  - get, cancel and set_client are called between callbacks, as in the   *)
(*    file's example, where get() is issued from the alarm's handler.      *)
(*  - The iterator of a callback reads the entropy the source has          *)
(*    available: a unit leaves the source when next() yields it, and the   *)
(*    generator may add units while the callback runs.                     *)
(***************************************************************************)
EXTENDS Naturals, Sequences, FiniteSets

\* ------------------------------------------------------------------ bounds
\* Entropy units the generator produces in one run.
MaxGen == 2
\* Largest value of an entropy unit (the unit's width, cut down).
MaxUnit == 1
\* Where the callback counters stop counting ("CountCap or more").
CountCap == 2

\* ------------------------------------------------------------ vocabulary
Continue == {"More", "Done"}
ReturnCode == {"SUCCESS", "FAIL", "EOFF", "ECANCEL"}
States == {"Idle", "Pending", "CancelRequested"}
Units == 0 .. MaxUnit
Clients == {1, 2}

\* A u8 unit of entropy: the low byte of a generated value.
Low8(v) == v % 256
Bytes == {Low8(v) : v \in Units}
\* What get() finds when it is called: the generator is ready, cannot
\* generate, or is not powered.
Hardware == {"ready", "fault", "off"}
\* What a source does with a get() while a request is outstanding.
BusyPolicy == {"coalesce", "reject"}

VARIABLES
  state,        \* the source's acquisition state
  client,       \* the registered client
  buffer,       \* entropy generated and not yet taken by a client
  inFlight,     \* entropy_available calls in flight
  cbError,      \* the error argument of the call in flight (or of the last one)
  cbClient,     \* the client the call in flight (or the last one) went to
  \* ---- history, read only by the properties
  generated,    \* every unit generated, in generation order
  consumed,     \* every unit a client took from an iterator, in order
  reqBase,      \* Len(consumed) when the current request began
  lastCall,     \* the last call of get or cancel: "none", "get", "cancel"
  ret,          \* what that call returned
  outcome,      \* where the latest request stands
  cbCount,      \* callbacks begun for the latest request
  cbAfterCancel,\* callbacks begun since cancel() first returned FAIL for it
  cbAfterEnd,   \* callbacks begun since it ended or was rejected
  terminals,    \* transitions back to Idle the latest request has made
  sawMore,      \* a callback of the latest request returned More
  lastAns,      \* what its latest callback returned ("none": none returned)
  idleCancels,  \* cancel() calls in a row made with no request outstanding
  rejected,     \* a get() failed in Idle and none has succeeded since
  recancelled,  \* cancel() was called again for the latest request while
                \* the callback promised by a failed cancel() was still owed
  \* ---- an Entropy8 source and its Client8, run beside the Entropy32 one
  state8,       \* its acquisition state
  buffer8,      \* bytes generated and not yet taken by a client
  inFlight8,    \* Client8::entropy_available calls in flight
  cbError8,     \* the error argument of the call in flight (or the last one)
  ret8          \* what its last get or cancel returned

vars == <<state, client, buffer, inFlight, cbError, cbClient, generated,
          consumed, reqBase, lastCall, ret, outcome, cbCount, cbAfterCancel,
          cbAfterEnd, terminals, sawMore, lastAns, idleCancels, rejected,
          recancelled, state8, buffer8, inFlight8, cbError8, ret8>>

vars8 == <<state8, buffer8, inFlight8, cbError8, ret8>>

hist == <<generated, consumed, reqBase, lastCall, ret, outcome, cbCount,
          cbAfterCancel, cbAfterEnd, terminals, sawMore, lastAns, idleCancels,
          rejected, recancelled>>

\* An entropy_available call is in flight.
inCallback == inFlight > 0

Bump(n) == IF n < CountCap THEN n + 1 ELSE n

TypeOK ==
  /\ state \in States
  /\ client \in Clients /\ cbClient \in Clients
  /\ buffer \in Seq(Units) /\ generated \in Seq(Units)
  /\ consumed \in Seq(Units)
  /\ Len(generated) <= MaxGen
  /\ inFlight \in 0 .. 1
  /\ cbError \in ReturnCode /\ ret \in ReturnCode
  /\ lastCall \in {"none", "get", "cancel"}
  /\ outcome \in {"none", "active", "cancelling", "done", "cancelled",
                  "cancelcb"}
  /\ lastAns \in Continue \cup {"none"}
  /\ {cbCount, cbAfterCancel, cbAfterEnd, terminals, idleCancels}
       \subseteq 0 .. CountCap
  /\ reqBase \in 0 .. MaxGen
  /\ sawMore \in BOOLEAN /\ rejected \in BOOLEAN
  /\ recancelled \in BOOLEAN
  /\ state8 \in States
  /\ buffer8 \in Seq(Bytes)
  /\ inFlight8 \in 0 .. 1
  /\ cbError8 \in ReturnCode /\ ret8 \in ReturnCode

\* ---------------------------------------------------------------- get()
\* The three return values of get().
GetResult(hw) ==
  CASE hw = "ready" -> "SUCCESS"
    [] hw = "fault" -> "FAIL"
    [] hw = "off"   -> "EOFF"

\* A get() while a request is outstanding starts no second acquisition: the
\* source folds it into the outstanding one or rejects it.
BusyResult(policy) == IF policy = "coalesce" THEN "SUCCESS" ELSE "FAIL"

\* Mutant: get() returns SUCCESS without arming the callback.
AfterGet_NotArmed(st, rc) == st

\* Mutant: every get() arms the callback, whatever it returns.
AfterGet_ArmsOnFailure(st, rc) == IF st = "Idle" THEN "Pending" ELSE st

\* Mutant: a get() that returns SUCCESS always starts an acquisition.
AfterGet_Restarts(st, rc) == IF rc = "SUCCESS" THEN "Pending" ELSE st

\* SUCCESS arms the callback; FAIL and EOFF leave the source as it was.
AfterGet(st, rc) == IF st = "Idle" /\ rc = "SUCCESS" THEN "Pending" ELSE st

\* Mutant: the callback owed after a failed cancel() waits for entropy too.
CanDeliver_OnlyWithEntropy(st, buf) == st # "Idle" /\ buf # << >>

\* Mutant: an armed source calls back whether or not it has entropy.
CanDeliver_WheneverArmed(st, buf) == st # "Idle"

\* A callback is due when a request is pending and entropy is available,
\* or when a cancel() has answered FAIL.
CanDeliver(st, buf) ==
  \/ st = "Pending" /\ buf # << >>
  \/ st = "CancelRequested"

\* Mutant: get() calls the client at once when a callback is due.
InFlightAfterGet_CallsBack(n, st, buf) ==
  IF CanDeliver(st, buf) THEN n + 1 ELSE n

\* get() only arms the callback: SUCCESS means entropy_available will be
\* called in the future, not from inside get().
InFlightAfterGet(n, st, buf) == n

Init ==
  /\ state = "Idle"
  /\ client \in Clients
  /\ buffer = << >>
  /\ inFlight = 0
  /\ cbError = "SUCCESS"
  /\ cbClient = client
  /\ generated = << >>
  /\ consumed = << >>
  /\ reqBase = 0
  /\ lastCall = "none"
  /\ ret = "SUCCESS"
  /\ outcome = "none"
  /\ cbCount = 0
  /\ cbAfterCancel = 0
  /\ cbAfterEnd = 0
  /\ terminals = 0
  /\ sawMore = FALSE
  /\ lastAns = "none"
  /\ idleCancels = 0
  /\ rejected = FALSE
  /\ recancelled = FALSE
  /\ state8 = "Idle"
  /\ buffer8 = << >>
  /\ inFlight8 = 0
  /\ cbError8 = "SUCCESS"
  /\ ret8 = "SUCCESS"

GetCall(hw, policy) ==
  /\ LET rc == IF state = "Idle" THEN GetResult(hw) ELSE BusyResult(policy)
         started == state = "Idle" /\ rc = "SUCCESS"
     IN /\ state' = AfterGet(state, rc)
        /\ ret' = rc
        /\ outcome' = IF started THEN "active" ELSE outcome
        /\ rejected' = IF state # "Idle" THEN rejected ELSE ~started
        /\ cbCount' = IF started THEN 0 ELSE cbCount
        /\ cbAfterCancel' = IF started THEN 0 ELSE cbAfterCancel
        /\ cbAfterEnd' = IF state = "Idle" THEN 0 ELSE cbAfterEnd
        /\ terminals' = IF started THEN 0 ELSE terminals
        /\ sawMore' = IF started THEN FALSE ELSE sawMore
        /\ lastAns' = IF started THEN "none" ELSE lastAns
        /\ reqBase' = IF started THEN Len(consumed) ELSE reqBase
        /\ recancelled' = IF started THEN FALSE ELSE recancelled
  /\ inFlight' = InFlightAfterGet(inFlight, state', buffer)
  /\ lastCall' = "get"
  /\ idleCancels' = 0
  /\ UNCHANGED <<client, buffer, cbError, cbClient, generated, consumed>>

\* get() called between callbacks.
Get(hw, policy) == ~inCallback /\ GetCall(hw, policy)

\* get() called by the client from inside entropy_available.
GetInCallback(hw, policy) == inCallback /\ GetCall(hw, policy)

\* -------------------------------------------------------------- cancel()
\* Mutant: with nothing to cancel, cancel() reports a failure.
CancelResult_FailsWhenIdle(st, stoppable) ==
  IF st = "Pending" /\ stoppable THEN "SUCCESS" ELSE "FAIL"

\* SUCCESS: the outstanding request has been cancelled, or there was none.
\* FAIL: the generation in flight could not be stopped (stoppable = FALSE),
\* or a cancellation is already waiting for its callback.
CancelResult(st, stoppable) ==
  IF st = "Idle" \/ (st = "Pending" /\ stoppable) THEN "SUCCESS" ELSE "FAIL"

\* Mutant: a successful cancel() leaves the callback armed.
AfterCancel_StaysArmed(st, rc) ==
  IF st = "Pending" /\ rc = "FAIL" THEN "CancelRequested" ELSE st

\* Mutant: a second cancel() drops the callback the first one promised.
AfterCancel_RepeatDisarms(st, rc) ==
  IF st = "Pending"
  THEN IF rc = "SUCCESS" THEN "Idle" ELSE "CancelRequested"
  ELSE "Idle"

\* SUCCESS: no callback will be issued.  FAIL: there will be a callback.
AfterCancel(st, rc) ==
  IF st = "Pending"
  THEN IF rc = "SUCCESS" THEN "Idle" ELSE "CancelRequested"
  ELSE st

CancelCall(stoppable) ==
  /\ LET rc == CancelResult(state, stoppable)
         st == AfterCancel(state, rc)
         ended == state # "Idle" /\ rc = "SUCCESS"
     IN /\ state' = st
        /\ ret' = rc
        /\ outcome' = IF ended THEN "cancelled"
                      ELSE IF state = "Pending" /\ rc = "FAIL"
                           THEN "cancelling" ELSE outcome
        /\ terminals' = IF state # "Idle" /\ st = "Idle"
                        THEN Bump(terminals) ELSE terminals
        /\ cbAfterEnd' = IF ended THEN 0 ELSE cbAfterEnd
        /\ cbAfterCancel' = IF state = "Pending" /\ rc = "FAIL"
                            THEN 0 ELSE cbAfterCancel
        /\ idleCancels' = IF state = "Idle" THEN Bump(idleCancels) ELSE 0
        /\ recancelled' = (recancelled \/ state = "CancelRequested")
  /\ lastCall' = "cancel"
  /\ UNCHANGED <<client, buffer, inFlight, cbError, cbClient, generated,
                 consumed, reqBase, cbCount, sawMore, lastAns, rejected>>

\* cancel() called between callbacks.
Cancel(stoppable) == ~inCallback /\ CancelCall(stoppable)

\* cancel() called by the client from inside entropy_available.
CancelInCallback(stoppable) == inCallback /\ CancelCall(stoppable)

\* ---------------------------------------------------------- set_client()
\* Mutant: registering a client drops the outstanding request.
SetClient_CancelsRequest(c) ==
  /\ ~inCallback
  /\ client' = c
  /\ state' = "Idle"
  /\ UNCHANGED <<buffer, inFlight, cbError, cbClient>>
  /\ UNCHANGED hist

SetClient(c) ==
  /\ ~inCallback
  /\ client' = c
  /\ UNCHANGED <<state, buffer, inFlight, cbError, cbClient>>
  /\ UNCHANGED hist

\* ------------------------------------------------------------ generation
\* The generator produces one unit; it may have values ready before a
\* get() and may produce more while a callback is running.
Generate(v) ==
  /\ Len(generated) < MaxGen
  /\ buffer' = Append(buffer, v)
  /\ generated' = Append(generated, v)
  /\ UNCHANGED <<state, client, inFlight, cbError, cbClient, consumed,
                 reqBase, lastCall, ret, outcome, cbCount,
                 cbAfterCancel, cbAfterEnd, terminals, sawMore, lastAns,
                 idleCancels, rejected,
                 recancelled>>

\* ---------------------------------------------------- entropy_available()
\* Mutant: the callback after a cancel() reports no error.
CallbackStatus_NoError(st) == "SUCCESS"

\* The error argument: ECANCEL when the callback follows a cancel().
CallbackStatus(st) == IF st = "CancelRequested" THEN "ECANCEL" ELSE "SUCCESS"

CallbackBegin ==
  /\ ~inCallback
  /\ CanDeliver(state, buffer)
  /\ inFlight' = inFlight + 1
  /\ cbError' = CallbackStatus(state)
  /\ cbClient' = client
  /\ cbCount' = Bump(cbCount)
  /\ cbAfterCancel' = Bump(cbAfterCancel)
  /\ cbAfterEnd' = Bump(cbAfterEnd)
  /\ UNCHANGED <<state, client, buffer, generated, consumed, reqBase,
                 lastCall, ret, outcome, terminals, sawMore, lastAns,
                 idleCancels, rejected,
                 recancelled>>

\* The iterator handed to the client reads the source's available entropy:
\* next() takes the oldest unit, and ends when none is available now.
\* Mutant: next() yields the newest unit instead of the oldest.
IterItem_Newest(buf) == buf[Len(buf)]
IterItem(buf) == Head(buf)
IterRest(buf) == Tail(buf)

IterNext ==
  /\ inCallback
  /\ buffer # << >>
  /\ consumed' = Append(consumed, IterItem(buffer))
  /\ buffer' = IterRest(buffer)
  /\ UNCHANGED <<state, client, inFlight, cbError, cbClient, generated,
                 reqBase, lastCall, ret, outcome, cbCount,
                 cbAfterCancel, cbAfterEnd, terminals, sawMore, lastAns,
                 idleCancels, rejected,
                 recancelled>>

\* The callback that follows a failed cancel() ends the request whatever
\* the client answers.
AfterCancelCallback(ans) == "Idle"

\* Mutant: Done is treated like More.
AfterReturn_DoneStaysArmed(st, ans) ==
  IF st = "CancelRequested" THEN AfterCancelCallback(ans) ELSE st

\* Mutant: any return ends the request.
AfterReturn_MoreDisarms(st, ans) ==
  IF st = "CancelRequested" THEN AfterCancelCallback(ans) ELSE "Idle"

\* Mutant: the callback after a failed cancel() is treated like any other.
AfterReturn_CancelCallbackHonoursMore(st, ans) ==
  IF ans = "Done" THEN "Idle" ELSE st

\* Done: no callback until get() is called.  More: called again when more
\* entropy is available.
AfterReturn(st, ans) ==
  IF st = "CancelRequested" THEN AfterCancelCallback(ans)
  ELSE IF ans = "Done" THEN "Idle" ELSE st

\* Mutant: entropy the client did not take is discarded at the return.
Unconsumed_Discarded(buf) == << >>

\* The iterator reads the source's available entropy; what the client did
\* not take from it is still available when the callback returns.
Unconsumed(buf) == buf

CallbackReturn(ans) ==
  /\ inCallback
  /\ inFlight' = inFlight - 1
  /\ buffer' = Unconsumed(buffer)
  /\ LET st == AfterReturn(state, ans)
         ended == state # "Idle" /\ st = "Idle"
     IN /\ state' = st
        /\ terminals' = IF ended THEN Bump(terminals) ELSE terminals
  /\ outcome' = IF cbError = "ECANCEL" THEN "cancelcb"
                ELSE IF ans = "Done" THEN "done" ELSE outcome
  /\ cbAfterEnd' = IF cbError = "ECANCEL" \/ ans = "Done" THEN 0
                   ELSE cbAfterEnd
  /\ sawMore' = (sawMore \/ ans = "More")
  /\ lastAns' = ans
  /\ UNCHANGED <<client, cbError, cbClient, generated, consumed,
                 reqBase, lastCall, ret, cbCount, cbAfterCancel,
                 idleCancels, rejected,
                 recancelled>>

\* ------------------------------------------------- Entropy8 / Client8
GetResult8(hw) ==
  CASE hw = "ready" -> "SUCCESS"
    [] hw = "fault" -> "FAIL"
    [] hw = "off"   -> "EOFF"

BusyResult8(policy) == IF policy = "coalesce" THEN "SUCCESS" ELSE "FAIL"

AfterGet8(st, rc) == IF st = "Idle" /\ rc = "SUCCESS" THEN "Pending" ELSE st

Get8(hw, policy) ==
  /\ inFlight8 = 0
  /\ LET rc == IF state8 = "Idle" THEN GetResult8(hw) ELSE BusyResult8(policy)
     IN /\ state8' = AfterGet8(state8, rc)
        /\ ret8' = rc
  /\ UNCHANGED <<buffer8, inFlight8, cbError8>>

CancelResult8(st, stoppable) ==
  IF st = "Idle" \/ (st = "Pending" /\ stoppable) THEN "SUCCESS" ELSE "FAIL"

AfterCancel8(st, rc) ==
  IF st = "Pending"
  THEN IF rc = "SUCCESS" THEN "Idle" ELSE "CancelRequested"
  ELSE st

Cancel8(stoppable) ==
  /\ inFlight8 = 0
  /\ LET rc == CancelResult8(state8, stoppable)
     IN /\ state8' = AfterCancel8(state8, rc)
        /\ ret8' = rc
  /\ UNCHANGED <<buffer8, inFlight8, cbError8>>

\* The client is only the target of the callbacks and is not recorded for
\* the 8-bit source.
SetClient8(c) ==
  /\ inFlight8 = 0
  /\ UNCHANGED <<state8, buffer8, inFlight8, cbError8, ret8>>

Generate8(b) ==
  /\ buffer8' = Append(buffer8, b)
  /\ UNCHANGED <<state8, inFlight8, cbError8, ret8>>

\* Mutant: the callback owed after a failed cancel() waits for a byte too.
CanDeliver8_OnlyWithBytes(st, buf) == st # "Idle" /\ Len(buf) >= 1

\* Called when one or more bytes are available, or after a cancel() that
\* answered FAIL.
CanDeliver8(st, buf) ==
  \/ st = "Pending" /\ Len(buf) >= 1
  \/ st = "CancelRequested"

CallbackStatus8(st) == IF st = "CancelRequested" THEN "ECANCEL" ELSE "SUCCESS"

CallbackBegin8 ==
  /\ inFlight8 = 0
  /\ CanDeliver8(state8, buffer8)
  /\ inFlight8' = inFlight8 + 1
  /\ cbError8' = CallbackStatus8(state8)
  /\ UNCHANGED <<state8, buffer8, ret8>>

IterNext8 ==
  /\ inFlight8 > 0
  /\ buffer8 # << >>
  /\ buffer8' = Tail(buffer8)
  /\ UNCHANGED <<state8, inFlight8, cbError8, ret8>>

AfterReturn8(st, ans) ==
  IF st = "CancelRequested" THEN "Idle"
  ELSE IF ans = "Done" THEN "Idle" ELSE st

CallbackReturn8(ans) ==
  /\ inFlight8 > 0
  /\ inFlight8' = inFlight8 - 1
  /\ state8' = AfterReturn8(state8, ans)
  /\ UNCHANGED <<buffer8, cbError8, ret8>>

\* ------------------------------------------------------------------ runs
\* One Entropy32 source and its client; the Entropy8 source stands still.
Next ==
  \/ (\E hw \in Hardware, policy \in BusyPolicy : Get(hw, policy))
       /\ UNCHANGED vars8
  \/ (\E stoppable \in BOOLEAN : Cancel(stoppable)) /\ UNCHANGED vars8
  \/ (\E c \in Clients : SetClient(c)) /\ UNCHANGED vars8
  \/ (\E v \in Units : Generate(v)) /\ UNCHANGED vars8
  \/ CallbackBegin /\ UNCHANGED vars8
  \/ IterNext /\ UNCHANGED vars8
  \/ (\E ans \in Continue : CallbackReturn(ans)) /\ UNCHANGED vars8

Spec == Init /\ [][Next]_vars

\* The callback in flight was delivered in this state of the source.
CbState == IF cbError = "ECANCEL" THEN "CancelRequested" ELSE "Pending"

\* A callback returns after a call made inside it has changed the source's
\* state: the source may keep the state that call left and drop the answer
\* (CallbackReturn, which applies the answer, is the other possibility).
CallbackReturnStale(ans) ==
  /\ inCallback
  /\ state # CbState
  /\ inFlight' = inFlight - 1
  /\ sawMore' = (sawMore \/ ans = "More")
  /\ lastAns' = ans
  /\ UNCHANGED <<state, client, buffer, cbError, cbClient, generated,
                 consumed, reqBase, lastCall, ret, outcome, cbCount,
                 cbAfterCancel, cbAfterEnd, terminals, idleCancels, rejected,
                 recancelled>>

\* The protocol with a client that also calls get() and cancel() from
\* inside entropy_available.
NextReentrant ==
  \/ Next
  \/ (\E hw \in Hardware, policy \in BusyPolicy : GetInCallback(hw, policy))
       /\ UNCHANGED vars8
  \/ (\E stoppable \in BOOLEAN : CancelInCallback(stoppable))
       /\ UNCHANGED vars8
  \/ (\E ans \in Continue : CallbackReturnStale(ans)) /\ UNCHANGED vars8

ReentrantSpec == Init /\ [][NextReentrant]_vars

\* The Entropy32 and the Entropy8 source side by side: every call, every
\* generation event, every step of the clients and every callback happens
\* to both, with the same inputs.
NextPair ==
  \/ \E hw \in Hardware, policy \in BusyPolicy :
        Get(hw, policy) /\ Get8(hw, policy)
  \/ \E stoppable \in BOOLEAN : Cancel(stoppable) /\ Cancel8(stoppable)
  \/ \E c \in Clients : SetClient(c) /\ SetClient8(c)
  \/ \E v \in Units : Generate(v) /\ Generate8(Low8(v))
  \/ CallbackBegin /\ CallbackBegin8
  \/ IterNext /\ IterNext8
  \/ \E ans \in Continue : CallbackReturn(ans) /\ CallbackReturn8(ans)

PairSpec == Init /\ [][NextPair]_vars

\* The generator keeps generating, a due callback is delivered, and a
\* callback in flight returns.
Fairness ==
  /\ WF_vars((\E v \in Units : Generate(v)) /\ UNCHANGED vars8)
  /\ WF_vars(CallbackBegin /\ UNCHANGED vars8)
  /\ WF_vars((\E ans \in Continue : CallbackReturn(ans)) /\ UNCHANGED vars8)

FairSpec == Spec /\ Fairness

\* ================================================================ claims

\* C1: when cancel() returns FAIL for an outstanding request, exactly one
\* more callback occurs for it: one is eventually delivered, and no second
\* one is delivered before a get() succeeds again.
C1_OneMoreCallbackAfterFailedCancel ==
  /\ [](outcome \in {"cancelling", "cancelcb"} => cbAfterCancel <= 1)
  /\ [](outcome = "cancelcb" => cbAfterCancel = 1 /\ state = "Idle")
  /\ ((outcome = "cancelling" /\ cbAfterCancel = 0) ~> cbAfterCancel = 1)

\* The one callback has returned More with entropy left, and none follows.
C1_Witness ==
  /\ outcome = "cancelcb" /\ cbAfterCancel = 1
  /\ lastAns = "More"
  /\ buffer # << >>
  /\ lastCall = "cancel" /\ idleCancels = 0

\* The latest request has ended and none has started since.
Ended == outcome \in {"done", "cancelled", "cancelcb"}

\* C2: after cancel() returns SUCCESS for an outstanding request the source
\* is Idle and no entropy_available callback is delivered until a later
\* get() returns SUCCESS.
C2_NoCallbackAfterSuccessfulCancel ==
  /\ (lastCall = "cancel" /\ ret = "SUCCESS") => state = "Idle"
  /\ outcome = "cancelled" =>
       state = "Idle" /\ ~inCallback /\ cbAfterEnd = 0

\* Entropy is available and a get() has since failed, yet nothing is
\* delivered for the cancelled request.
C2_Witness ==
  /\ outcome = "cancelled"
  /\ buffer # << >>
  /\ rejected /\ lastCall = "get" /\ ret = "FAIL"

\* C3: once a callback has returned Done the source is Idle and does not
\* call entropy_available again until a get() succeeds.
C3_NoCallbackAfterDone ==
  lastAns = "Done" => state = "Idle" /\ ~inCallback /\ cbAfterEnd = 0

\* Done was returned with entropy left over, and no callback follows.
C3_Witness ==
  /\ lastAns = "Done" /\ outcome = "done"
  /\ buffer # << >>
  /\ lastCall = "cancel"

\* C4: a get() that fails while the source is Idle (FAIL or EOFF) leaves it
\* Idle, and no callback occurs until a later get() returns SUCCESS.
C4_NoCallbackAfterRejectedGet ==
  /\ rejected => state = "Idle" /\ ~inCallback /\ cbAfterEnd = 0
  /\ (lastCall = "get" /\ ret = "EOFF") => rejected

\* get() answered EOFF while entropy was available; nothing is delivered.
C4_Witness ==
  /\ rejected /\ lastCall = "get" /\ ret = "EOFF"
  /\ buffer # << >>

\* The source has entropy to hand over, or can still generate some.
CanSupply == buffer # << >> \/ Len(generated) < MaxGen

\* C5: after get() returns SUCCESS, while the request is not cancelled, a
\* callback is eventually delivered whenever the source has or generates
\* entropy, and the request stays pending as long as the client answers
\* More.
C5_CallbacksUntilDone ==
  /\ [](outcome = "active" => state = "Pending")
  /\ ((outcome = "active" /\ ~inCallback /\ CanSupply)
        ~> (inCallback \/ outcome # "active"))

\* A second callback of the request runs after the first returned More.
C5_Witness ==
  /\ outcome = "active" /\ inCallback
  /\ cbCount >= 2 /\ lastAns = "More"

\* C6: cancel() with no request outstanding returns SUCCESS, leaves the
\* source Idle and triggers no callback, however often it is repeated.
C6_CancelWhenIdle ==
  (lastCall = "cancel" /\ idleCancels > 0) =>
     /\ ret = "SUCCESS"
     /\ state = "Idle"
     /\ ~inCallback
     /\ cbAfterEnd = 0

\* cancel() was called at least twice in a row with nothing outstanding.
C6_Witness ==
  /\ lastCall = "cancel" /\ idleCancels >= 2
  /\ buffer # << >>

ReqConsumed == SubSeq(consumed, reqBase + 1, Len(consumed))

C9_Original ==
  /\ rejected => cbAfterEnd = 0 /\ ~inCallback
  /\ Ended => cbCount >= 1 /\ terminals = 1

\* C9: a rejected get() has no callback; a request that started makes
\* exactly one transition back to Idle (a Done return, a successful cancel,
\* or the callback after a failed cancel), and has had at least one callback
\* unless a successful cancel() ended it.
C9_CallbacksPerRequest ==
  /\ rejected => cbAfterEnd = 0 /\ ~inCallback
  /\ terminals <= 1
  /\ Ended => terminals = 1 /\ state = "Idle"
  /\ outcome \in {"active", "cancelling"} => terminals = 0 /\ state # "Idle"
  /\ outcome \in {"done", "cancelcb"} => cbCount >= 1

\* A request had callbacks, was then cancelled with success, and a later
\* get() was rejected.
C9_Witness ==
  /\ outcome = "cancelled" /\ cbCount >= 1 /\ terminals = 1
  /\ rejected

\* C10 as stated: with Done returned from every first callback, each
\* request that started and ended had exactly one callback.
C10_Original == (Ended /\ ~sawMore) => cbCount = 1

\* C10: a client that returns Done from the first callback of every request
\* gets at most one callback per request: exactly one when the request ends
\* with a callback, none when a successful cancel() ends it first.
C10_OneCallbackWhenDoneFirst ==
  (outcome # "none" /\ ~sawMore) =>
     /\ cbCount <= 1
     /\ outcome \in {"done", "cancelcb"} => cbCount = 1
     /\ outcome = "cancelled" => cbCount = 0

\* Done came back from the first callback although entropy was left.
C10_Witness ==
  /\ outcome = "done" /\ ~sawMore /\ cbCount = 1
  /\ buffer # << >>

C12_MoreKeepsPending ==
  /\ []((outcome = "active" /\ lastAns = "More" /\ ~inCallback)
          => (state = "Pending" /\ cbAfterEnd >= 1))
  /\ ((outcome = "active" /\ lastAns = "More" /\ ~inCallback
         /\ buffer # << >>)
        ~> (inCallback \/ outcome # "active"))

\* More was answered with the sequence not drained.
C12_Witness ==
  /\ outcome = "active" /\ lastAns = "More" /\ ~inCallback
  /\ state = "Pending"
  /\ consumed # << >> /\ buffer # << >>

\* C13: the callback that follows a failed cancel() leaves the source Idle
\* whatever it returns; after it no callback occurs until a get() succeeds.
C13_CancelCallbackIsTerminal ==
  outcome = "cancelcb" =>
     /\ state = "Idle"
     /\ ~inCallback
     /\ cbAfterEnd = 0
     /\ ~CanDeliver(state, buffer)

\* That callback returned More, entropy is left, a get() was rejected since.
C13_Witness ==
  /\ outcome = "cancelcb" /\ lastAns = "More"
  /\ buffer # << >>
  /\ rejected /\ lastCall = "get"

\* A get() made while a request is outstanding.
BusyGet ==
  /\ state # "Idle"
  /\ \E hw \in Hardware, policy \in BusyPolicy : Get(hw, policy)

\* C14: a get() made while a request is Pending or CancelRequested starts no
\* second acquisition: it leaves the outstanding one as it is, and one Done
\* return or one successful cancel() brings the source to Idle with no
\* callback remaining.
C14_OneAcquisitionOutstanding ==
  /\ [][BusyGet => /\ state' = state
                   /\ outcome' = outcome
                   /\ cbCount' = cbCount
                   /\ terminals' = terminals
                   /\ buffer' = buffer
                   /\ ret' \in {"SUCCESS", "FAIL"}]_vars
  /\ [](outcome \in {"done", "cancelled"} =>
          /\ state = "Idle"
          /\ terminals = 1
          /\ ~inCallback
          /\ ~CanDeliver(state, buffer))

\* A get() was rejected while the request was outstanding, and the one
\* Done that followed left the source Idle with entropy still available.
C14_Witness ==
  /\ outcome = "done" /\ state = "Idle"
  /\ lastCall = "get" /\ ret = "FAIL" /\ ~rejected
  /\ buffer # << >>

\* C15: at most one entropy_available call is in flight at any time, also
\* when the client calls get() or cancel() from inside the callback.
CallInCallback ==
  \/ \E hw \in Hardware, policy \in BusyPolicy : GetInCallback(hw, policy)
  \/ \E stoppable \in BOOLEAN : CancelInCallback(stoppable)

C15_OneCallbackInFlight ==
  /\ [](inFlight <= 1)
  /\ [][CallInCallback => inFlight' = inFlight]_vars
  /\ [][inFlight' > inFlight => inFlight = 0]_vars

\* cancel() was called inside a callback and answered FAIL: the callback it
\* promises is due while the first one has not returned.
C15_Witness ==
  /\ inFlight = 1 /\ cbError = "SUCCESS"
  /\ state = "CancelRequested" /\ CanDeliver(state, buffer)
  /\ lastCall = "cancel" /\ ret = "FAIL"

MoreReturn ==
  inCallback /\ ~inCallback' /\ lastAns' = "More" /\ state' = "Pending"

RepeatCancel ==
  state = "CancelRequested" /\ \E stoppable \in BOOLEAN : Cancel(stoppable)

\* C19: a cancel() called again in CancelRequested answers FAIL and changes
\* neither the state nor the callbacks owed: exactly one callback follows
\* the first failed cancel(), and after it the source is Idle.
C19_RepeatCancelKeepsOneCallback ==
  /\ [][RepeatCancel => /\ ret' = "FAIL" /\ state' = "CancelRequested"
                        /\ cbAfterCancel' = cbAfterCancel
                        /\ outcome' = outcome]_vars
  /\ []((recancelled /\ outcome = "cancelling")
          => (state = "CancelRequested" /\ cbAfterCancel <= 1
              /\ (cbAfterCancel = 1 => inCallback)))
  /\ []((recancelled /\ outcome = "cancelcb")
          => (cbAfterCancel = 1 /\ state = "Idle" /\ ~inCallback
              /\ ~CanDeliver(state, buffer)))
  /\ ((recancelled /\ outcome = "cancelling") ~> (outcome = "cancelcb"))

\* cancel() was repeated before the final callback, which has now returned.
C19_Witness ==
  /\ recancelled /\ outcome = "cancelcb" /\ cbAfterCancel = 1
  /\ state = "Idle" /\ ~inCallback /\ lastCall = "cancel" /\ ret = "FAIL"

\* The bytes of a sequence of units.
ToBytes(buf) == [i \in 1 .. Len(buf) |-> Low8(buf[i])]

\* C18: run side by side on the same calls, generation events and answers,
\* the 32-bit and the 8-bit source are in the same state, have returned the
\* same status, have a callback in flight or due at the same time with the
\* same error argument, and hold the same entropy up to the unit type.
C18_SameProtocol ==
  /\ state8 = state /\ ret8 = ret
  /\ inFlight8 = inFlight /\ cbError8 = cbError
  /\ CanDeliver8(state8, buffer8) = CanDeliver(state, buffer)
  /\ buffer8 = ToBytes(buffer)

\* Both sources owe the callback of a failed cancel() and hold no entropy.
C18_Witness ==
  /\ state = "CancelRequested" /\ state8 = "CancelRequested"
  /\ buffer = << >> /\ buffer8 = << >> /\ ret8 = "FAIL"
  /\ CanDeliver8(state8, buffer8) /\ inFlight8 = 0
====
